---- MODULE Spec2Model ----
(***************************************************************************)
(* Task progress / approval workflow of the task-flow backend.             *)
(*                                                                         *)
(* The document store holds Task documents (with their embedded            *)
(* progressUpdates), Project documents and Notification documents.  Every  *)
(* controller is one action; the two workflow controllers                  *)
(* (updateTaskProgress, approveTaskProgress) are also given step by step   *)
(* (findById, save, find, findByIdAndUpdate) so that overlapping requests  *)
(* can be explored (SpecConc).                                             *)
(***************************************************************************)
EXTENDS Naturals, Integers, Sequences, FiniteSets, TLC

\* ---------------------------------------------------------------- bounds
MaxTasks == 1          \* task documents ever created in a behaviour
MaxUpdates == 2        \* progressUpdates per task
MaxTime == 1           \* instants `new Date()` can return
MaxNotifications == 1  \* notification documents held at once
MaxInflight == 2       \* overlapping workflow requests (SpecConc)
MaxProjectTasks == 3   \* task documents of one project (SpecProgress)
MaxProjectUpdates == 1 \* progressUpdates per task (SpecProgress)
MaxReadTasks == 2      \* task documents of one project (SpecRead)
MaxInbox == 3          \* notifications stored while the inbox requests run
MaxRaceTasks == 2      \* Tasks of the project while two decides overlap

\* ------------------------------------------------------------ principals
Managers == {"m1", "m2"}
Employees == {"e1", "e2"}
Admins == {"a1"}
Users == Managers \cup Employees \cup Admins
ProjectIds == {"p1"}
TaskIds == 1..MaxTasks

Undefined == "undefined"   \* a JS undefined / an unset String path
NoDate == 0                \* an unset Date path
Dates == 1..MaxTime        \* the instants `new Date()` returns

\* ------------------------------------------------------- request bodies
\* req.body.status of PUT /tasks/:id/approve; the handler does not validate it
DecideStatuses == {"approved", "rejected", "pending", "bogus"}
ApprovalNotes == {Undefined, "redo lighting"}
\* multipart uploads of POST /tasks/:id/progress
ImageFile == [filename |-> "a.jpg", kind |-> "image"]
AudioFile == [filename |-> "v.mp3", kind |-> "audio"]
Uploads == { [files |-> << >>, notes |-> "done"],
             [files |-> <<ImageFile, AudioFile>>, notes |-> Undefined] }
TaskStatuses == {"Pending", "In Progress", "Completed"}
ProjectStatuses == {"Pending", "Ongoing", "Completed"}
UpdateTaskStatuses == {Undefined, "Pending", "Completed", "bogus"}
UpdateProjectStatuses == {Undefined, "Ongoing", "Completed", "bogus"}

VARIABLES tasks, projects, notifications, nTasks, reqs, last, sent, calls

vars == <<tasks, projects, notifications, nTasks, reqs, last, sent, calls>>

\* ---------------------------------------------------------------- schema
\* taskSchema enum of progressUpdates.approvalStatus
ApprovalStatusEnum == {"pending", "approved", "rejected"}

\* Task document as Task.create leaves it: schema defaults
NewTask(p, e, m) ==
    [project |-> p, assignedEmployee |-> e, createdBy |-> m,
     status |-> "Pending", pendingApproval |-> FALSE,
     progressUpdates |-> << >>, v |-> 0]

\* Project document with the schema defaults
NewProject(m, emps) ==
    [createdBy |-> m, assignedEmployees |-> emps, status |-> "Pending", progress |-> 0]

\* the last request answered: the handler, the HTTP status it sent and the
\* Task document it wrote (0 when it wrote none)
Response(op, code, t) == [op |-> op, code |-> code, task |-> t]

NoRequest == Response("none", 0, 0)

\* the Tasks in the body of the last read response and who asked for them
Body(u, ts) == [by |-> u, tasks |-> ts]

NoBody == Body("nobody", {})

Slots == 1..MaxInflight
Idle == [kind |-> "idle"]

\* ------------------------------------------------------ pure operators
\* `/uploads/tasks/${file.filename}`
FilePath(f) == <<"/uploads/tasks/", f.filename>>

RECURSIVE PhotosOf(_)
\* photos: the paths of the files whose mimetype starts with image/, in order
PhotosOf(files) ==
    IF files = << >> THEN << >>
    ELSE IF Head(files).kind = "image"
         THEN <<FilePath(Head(files))>> \o PhotosOf(Tail(files))
         ELSE PhotosOf(Tail(files))

RECURSIVE VoiceNoteFrom(_, _)
\* voiceNote: the path of the last file whose mimetype starts with audio/
VoiceNoteFrom(files, acc) ==
    IF files = << >> THEN acc
    ELSE VoiceNoteFrom(Tail(files),
                       IF Head(files).kind = "audio" THEN FilePath(Head(files)) ELSE acc)

NoPath == <<"null">>

\* the subdocument pushed by updateTaskProgress
NewUpdate(upload, t) ==
    [photos |-> PhotosOf(upload.files),
     voiceNote |-> VoiceNoteFrom(upload.files, NoPath),
     notes |-> upload.notes,
     submittedAt |-> t,
     approvalStatus |-> "pending",
     approvalNote |-> Undefined,
     approvedAt |-> NoDate]

\* a submit that leaves the Task's status alone; C8 must tell it apart
SubmitEditKeepingStatus(doc, upload, t) ==
    [doc EXCEPT !.progressUpdates = Append(@, NewUpdate(upload, t)),
                !.pendingApproval = TRUE]

\* the in-memory document of updateTaskProgress just before task.save()
SubmitEdit(doc, upload, t) ==
    [doc EXCEPT !.progressUpdates = Append(@, NewUpdate(upload, t)),
                !.status = "In Progress",
                !.pendingApproval = TRUE]

\* a decide that writes its decision into the first ProgressUpdate
DecideEditFirst(doc, status, note, t) ==
    [doc EXCEPT !.progressUpdates[1] =
                    [@ EXCEPT !.approvalStatus = status,
                              !.approvalNote = note,
                              !.approvedAt = t],
                !.status = IF status = "approved" THEN "Completed" ELSE "In Progress",
                !.pendingApproval = FALSE]

\* the in-memory document of approveTaskProgress just before task.save();
\* only called when progressUpdates is not empty
DecideEdit(doc, status, note, t) ==
    LET n == Len(doc.progressUpdates) IN
    [doc EXCEPT !.progressUpdates[n] =
                    [@ EXCEPT !.approvalStatus = status,
                              !.approvalNote = note,
                              !.approvedAt = t],
                !.status = IF status = "approved" THEN "Completed" ELSE "In Progress",
                !.pendingApproval = FALSE]

\* schema validation run by save()
ValidTask(doc) ==
    /\ doc.status \in TaskStatuses
    /\ \A i \in 1..Len(doc.progressUpdates) :
           doc.progressUpdates[i].approvalStatus \in ApprovalStatusEnum

\* a percentage that truncates instead of rounding; C7 must tell it apart
RoundPctTruncated(completed, total) == (100 * completed) \div total

\* Math.round((completed / total) * 100) for 0 <= completed <= total, total > 0
RoundPct(completed, total) == (200 * completed + total) \div (2 * total)

ProjectTasks(ts, p) == {t \in DOMAIN ts : ts[t].project = p}

\* progressPercentage of approveTaskProgress over the Task.find result
ProgressPercentage(ts, p) ==
    LET totalTasks == Cardinality(ProjectTasks(ts, p))
        completedTasks == Cardinality({t \in ProjectTasks(ts, p) : ts[t].status = "Completed"})
    IN IF totalTasks > 0 THEN RoundPct(completedTasks, totalTasks) ELSE 0

\* Project.findByIdAndUpdate(id, {progress}): no-op when the project is gone
WriteProgress(ps, p, pct) ==
    IF p \in DOMAIN ps THEN [ps EXCEPT ![p].progress = pct] ELSE ps

\* a notification that loses its relatedId; C13 must tell it apart
NotificationUnrelated(userId, userType, type, relatedId) ==
    [userId |-> userId, userType |-> userType, type |-> type,
     relatedId |-> 0, isRead |-> FALSE]

\* the document Notification.create stores
Notification(userId, userType, type, relatedId) ==
    [userId |-> userId, userType |-> userType, type |-> type,
     relatedId |-> relatedId, isRead |-> FALSE]

\* what createNotification meets after Notification.create: the lookup of the
\* recipient document and the messaging provider
RecipientLookups == {"lookup throws", "not found", "no token", "token"}
PushProviders == {"not initialised", "sent", "reports failures", "throws"}
PushEnvs == [recipient : RecipientLookups, provider : PushProviders]

\* sendPushNotification: undefined without a Firebase app, the provider's
\* response, or null when the provider throws (caught and logged)
SendPushNotification(provider) ==
    IF provider = "not initialised" THEN "undefined"
    ELSE IF provider = "throws" THEN "null"
    ELSE provider

\* the inner try block of createNotification: how the push attempt ended
PushTrigger(env) ==
    IF env.recipient = "lookup throws" THEN "pushError caught"
    ELSE IF env.recipient = "not found" THEN "recipient not found"
    ELSE IF env.recipient = "no token" THEN "no token"
    ELSE SendPushNotification(env.provider)

\* a createNotification that gives up the record when the push attempt did
\* not go through; C14 must tell it apart
NotifyUnlessPushFails(ns, n, env) ==
    LET created == Append(ns, n)
        pushed == PushTrigger(env)
    IN [ns |-> IF pushed \in {"pushError caught", "null", "reports failures"}
               THEN ns ELSE created,
        pushed |-> pushed]

\* createNotification in environment env: the stored notifications and what
\* the push attempt logged; a caught pushError falls through to the return
NotifyWith(ns, n, env) ==
    LET created == Append(ns, n)
        pushed == PushTrigger(env)
    IN [ns |-> created, pushed |-> pushed]

\* createNotification: the notifications it can leave stored
CreateNotification(ns, n) == {NotifyWith(ns, n, env).ns : env \in PushEnvs}

\* what Notification.create can do
CreateOutcomes == {"stored", "throws"}

\* one call createNotification made, with what it gave back
Call(name, outcome) == [call |-> name, outcome |-> outcome]

\* a createNotification that looks the recipient up and pushes before it
\* stores the record
CallsPushingFirst(env, create) ==
    <<Call("findById", env.recipient)>>
       \o (IF env.recipient = "token"
           THEN <<Call("sendPushNotification", SendPushNotification(env.provider))>>
           ELSE << >>)
       \o (IF create = "throws"
           THEN <<Call("Notification.create", "throws"), Call("return", "null")>>
           ELSE <<Call("Notification.create", "stored"), Call("return", "notification")>>)

\* the calls createNotification makes, in order, up to its return: a throw of
\* Notification.create goes to the outer catch, a throw of findById to the
\* inner one
CreateNotificationCalls(env, create) ==
    IF create = "throws"
    THEN <<Call("Notification.create", "throws"), Call("return", "null")>>
    ELSE <<Call("Notification.create", "stored"), Call("findById", env.recipient)>>
            \o (IF env.recipient = "token"
                THEN <<Call("sendPushNotification", SendPushNotification(env.provider))>>
                ELSE << >>)
            \o <<Call("return", "notification")>>

\* createNotification called with document n
createNotification(n, env, create) ==
    /\ notifications' = IF create = "throws" THEN notifications
                        ELSE NotifyWith(notifications, n, env).ns
    /\ calls' = CreateNotificationCalls(env, create)
    /\ last' = Response("createNotification", 0, 0)
    /\ UNCHANGED <<tasks, projects, nTasks, reqs, sent>>

Remove(f, x) == [y \in DOMAIN f \ {x} |-> f[y]]

\* ------------------------------------------------------------ task.save()
\* Mongoose sends only the paths the handler changed relative to the document
\* it read: a path assigned the value it already had is not written.
FieldDelta(storedVal, snapVal, editedVal) ==
    IF editedVal = snapVal THEN storedVal ELSE editedVal

UpdateDelta(storedU, snapU, editedU) ==
    [f \in DOMAIN editedU |-> FieldDelta(storedU[f], snapU[f], editedU[f])]

\* subdocuments pushed since the read ($push)
Pushed(snap, edited) ==
    SubSeq(edited.progressUpdates, Len(snap.progressUpdates) + 1, Len(edited.progressUpdates))

\* a $set below progressUpdates.<i>: the update is then conditioned on __v
PositionalSet(snap, edited) ==
    \E i \in 1..Len(snap.progressUpdates) :
        edited.progressUpdates[i] # snap.progressUpdates[i]

\* save() resolves: validation passes and the version condition matches
SaveOK(stored, snap, edited) ==
    /\ ValidTask(edited)
    /\ PositionalSet(snap, edited) => stored.v = snap.v

\* the stored document after a save() that resolved
SaveResult(stored, snap, edited) ==
    LET k == Len(snap.progressUpdates)
        kept == [i \in 1..Len(stored.progressUpdates) |->
                    IF i <= k
                    THEN UpdateDelta(stored.progressUpdates[i],
                                     snap.progressUpdates[i],
                                     edited.progressUpdates[i])
                    ELSE stored.progressUpdates[i]]
    IN [stored EXCEPT
            !.status = FieldDelta(@, snap.status, edited.status),
            !.pendingApproval = FieldDelta(@, snap.pendingApproval, edited.pendingApproval),
            !.assignedEmployee = FieldDelta(@, snap.assignedEmployee, edited.assignedEmployee),
            !.progressUpdates = kept \o Pushed(snap, edited),
            !.v = IF Pushed(snap, edited) # << >> THEN @ + 1 ELSE @]

\* ------------------------------------------------ POST /tasks/:id/progress
\* updateTaskProgress from task.save() on, for the document `snap` it read
SubmitCommit(e, t, upload, d, snap) ==
    LET edited == SubmitEdit(snap, upload, d) IN
    IF t \in DOMAIN tasks /\ SaveOK(tasks[t], snap, edited)
    THEN /\ tasks' = [tasks EXCEPT ![t] = SaveResult(tasks[t], snap, edited)]
         /\ notifications' \in CreateNotification(notifications,
                Notification(snap.createdBy, "Manager", "task_updated", t))
         /\ last' = Response("submit", 200, t)
    ELSE /\ UNCHANGED <<tasks, notifications>>
         /\ last' = Response("submit", 500, 0)

\* a submit that skips the assignee check; C10 must tell it apart
SubmitByAnyEmployee(e, t, upload, d) ==
    /\ IF t \notin DOMAIN tasks
       THEN /\ last' = Response("submit", 404, 0)
            /\ UNCHANGED <<tasks, notifications>>
       ELSE SubmitCommit(e, t, upload, d, tasks[t])
    /\ UNCHANGED <<projects, nTasks, reqs, sent, calls>>

\* updateTaskProgress as one request, nothing else in between
Submit(e, t, upload, d) ==
    /\ IF t \notin DOMAIN tasks
       THEN /\ last' = Response("submit", 404, 0)
            /\ UNCHANGED <<tasks, notifications>>
       ELSE IF tasks[t].assignedEmployee # e
       THEN /\ last' = Response("submit", 403, 0)
            /\ UNCHANGED <<tasks, notifications>>
       ELSE SubmitCommit(e, t, upload, d, tasks[t])
    /\ UNCHANGED <<projects, nTasks, reqs, sent, calls>>

\* -------------------------------------------------- PUT /tasks/:id/approve
\* approveTaskProgress after task.save(): Task.find, Project.findByIdAndUpdate
\* and createNotification, for the progress value `pct` it computed
DecideFinish(m, t, status, note, snap, pct) ==
    /\ projects' = WriteProgress(projects, snap.project, pct)
    /\ notifications' \in CreateNotification(notifications,
           Notification(snap.assignedEmployee, "Employee", "task", t))
    /\ last' = Response("decide", 200, t)

\* a decide that skips the creator check; C11 must tell it apart
DecideByAnyManager(m, t, status, note, d) ==
    /\ IF t \notin DOMAIN tasks
       THEN /\ last' = Response("decide", 404, 0)
            /\ UNCHANGED <<tasks, projects, notifications>>
       ELSE IF Len(tasks[t].progressUpdates) = 0
       THEN /\ last' = Response("decide", 400, 0)
            /\ UNCHANGED <<tasks, projects, notifications>>
       ELSE LET snap == tasks[t]
                edited == DecideEdit(snap, status, note, d)
            IN IF SaveOK(snap, snap, edited)
               THEN /\ tasks' = [tasks EXCEPT ![t] = SaveResult(snap, snap, edited)]
                    /\ DecideFinish(m, t, status, note, snap,
                                    ProgressPercentage(tasks', snap.project))
               ELSE /\ last' = Response("decide", 500, 0)
                    /\ UNCHANGED <<tasks, projects, notifications>>
    /\ UNCHANGED <<nTasks, reqs, sent, calls>>

\* a decide without the `if (!latestUpdate)` line: the assignment to
\* undefined throws and the catch answers 500; C12 must tell it apart
DecideWithoutEmptyCheck(m, t, status, note, d) ==
    /\ IF t \notin DOMAIN tasks
       THEN /\ last' = Response("decide", 404, 0)
            /\ UNCHANGED <<tasks, projects, notifications>>
       ELSE IF tasks[t].createdBy # m
       THEN /\ last' = Response("decide", 403, 0)
            /\ UNCHANGED <<tasks, projects, notifications>>
       ELSE IF Len(tasks[t].progressUpdates) = 0
       THEN /\ last' = Response("decide", 500, 0)
            /\ UNCHANGED <<tasks, projects, notifications>>
       ELSE LET snap == tasks[t]
                edited == DecideEdit(snap, status, note, d)
            IN IF SaveOK(snap, snap, edited)
               THEN /\ tasks' = [tasks EXCEPT ![t] = SaveResult(snap, snap, edited)]
                    /\ DecideFinish(m, t, status, note, snap,
                                    ProgressPercentage(tasks', snap.project))
               ELSE /\ last' = Response("decide", 500, 0)
                    /\ UNCHANGED <<tasks, projects, notifications>>
    /\ UNCHANGED <<nTasks, reqs, sent, calls>>

\* approveTaskProgress as one request, nothing else in between
Decide(m, t, status, note, d) ==
    /\ IF t \notin DOMAIN tasks
       THEN /\ last' = Response("decide", 404, 0)
            /\ UNCHANGED <<tasks, projects, notifications>>
       ELSE IF tasks[t].createdBy # m
       THEN /\ last' = Response("decide", 403, 0)
            /\ UNCHANGED <<tasks, projects, notifications>>
       ELSE IF Len(tasks[t].progressUpdates) = 0
       THEN /\ last' = Response("decide", 400, 0)
            /\ UNCHANGED <<tasks, projects, notifications>>
       ELSE LET snap == tasks[t]
                edited == DecideEdit(snap, status, note, d)
            IN IF SaveOK(snap, snap, edited)
               THEN /\ tasks' = [tasks EXCEPT ![t] = SaveResult(snap, snap, edited)]
                    /\ DecideFinish(m, t, status, note, snap,
                                    ProgressPercentage(tasks', snap.project))
               ELSE /\ last' = Response("decide", 500, 0)
                    /\ UNCHANGED <<tasks, projects, notifications>>
    /\ UNCHANGED <<nTasks, reqs, sent, calls>>

\* whether approveTaskProgress gets as far as task.save() and the save resolves
DecideCommits(m, t, status, note, d) ==
    /\ t \in DOMAIN tasks
    /\ tasks[t].createdBy = m
    /\ Len(tasks[t].progressUpdates) > 0
    /\ SaveOK(tasks[t], tasks[t], DecideEdit(tasks[t], status, note, d))

\* a decide whose store failure undoes the saved Task; C16 must tell it apart
DecideStoreFailureRollsBack(m, t, status, note, d) ==
    IF DecideCommits(m, t, status, note, d)
    THEN /\ last' = Response("decide", 500, t)
         /\ UNCHANGED <<tasks, projects, notifications, nTasks, reqs, sent, calls>>
    ELSE Decide(m, t, status, note, d)

\* approveTaskProgress as one request when the store rejects Task.find or
\* Project.findByIdAndUpdate after task.save() resolved: control passes to
\* the catch block, which answers 500; a request answered before that point
\* is the one Decide describes
DecideStoreFailure(m, t, status, note, d) ==
    IF DecideCommits(m, t, status, note, d)
    THEN LET snap == tasks[t]
             edited == DecideEdit(snap, status, note, d)
         IN /\ tasks' = [tasks EXCEPT ![t] = SaveResult(snap, snap, edited)]
            /\ last' = Response("decide", 500, t)
            /\ UNCHANGED <<projects, notifications, nTasks, reqs, sent, calls>>
    ELSE Decide(m, t, status, note, d)

\* a createTask that takes any Employee; C20 must tell it apart
createTaskForAnyEmployee(m, p, e) ==
    /\ IF p \notin DOMAIN projects
       THEN /\ last' = Response("createTask", 404, 0)
            /\ UNCHANGED <<tasks, notifications, nTasks>>
       ELSE IF projects[p].createdBy # m
       THEN /\ last' = Response("createTask", 403, 0)
            /\ UNCHANGED <<tasks, notifications, nTasks>>
       ELSE /\ nTasks' = nTasks + 1
            /\ tasks' = tasks @@ (nTasks' :> NewTask(p, e, m))
            /\ notifications' \in CreateNotification(notifications,
                   Notification(e, "Employee", "task_assigned", nTasks'))
            /\ last' = Response("createTask", 201, nTasks')
    /\ UNCHANGED <<projects, reqs, sent, calls>>

\* --------------------------------------------- POST /tasks/project/:projectId
createTask(m, p, e) ==
    /\ IF p \notin DOMAIN projects
       THEN /\ last' = Response("createTask", 404, 0)
            /\ UNCHANGED <<tasks, notifications, nTasks>>
       ELSE IF projects[p].createdBy # m
       THEN /\ last' = Response("createTask", 403, 0)
            /\ UNCHANGED <<tasks, notifications, nTasks>>
       ELSE IF e \notin projects[p].assignedEmployees
       THEN /\ last' = Response("createTask", 400, 0)
            /\ UNCHANGED <<tasks, notifications, nTasks>>
       ELSE /\ nTasks' = nTasks + 1
            /\ tasks' = tasks @@ (nTasks' :> NewTask(p, e, m))
            /\ notifications' \in CreateNotification(notifications,
                   Notification(e, "Employee", "task_assigned", nTasks'))
            /\ last' = Response("createTask", 201, nTasks')
    /\ UNCHANGED <<projects, reqs, sent, calls>>

\* ------------------------------------------------------------ PUT /tasks/:id
\* the manager branch of updateTask; body = {status?, assignedEmployee?}
UpdateTaskManager(m, t, status, emp) ==
    LET snap == tasks[t]
        edited == [snap EXCEPT
                     !.assignedEmployee = IF emp # Undefined THEN emp ELSE @,
                     !.status = IF status # Undefined THEN status ELSE @]
        R(code) == Response("updateTask", code, IF code = 200 THEN t ELSE 0)
    IN IF snap.createdBy # m
       THEN last' = R(403) /\ UNCHANGED tasks
       ELSE IF /\ emp # Undefined
               /\ emp # snap.assignedEmployee
               /\ snap.project \notin DOMAIN projects
       THEN last' = R(500) /\ UNCHANGED tasks
       ELSE IF /\ emp # Undefined
               /\ emp # snap.assignedEmployee
               /\ emp \notin projects[snap.project].assignedEmployees
       THEN last' = R(400) /\ UNCHANGED tasks
       ELSE IF SaveOK(snap, snap, edited)
       THEN /\ tasks' = [tasks EXCEPT ![t] = SaveResult(snap, snap, edited)]
            /\ last' = R(200)
       ELSE last' = R(500) /\ UNCHANGED tasks

\* the employee branch of updateTask; decides tasks' , notifications' and last'
UpdateTaskEmployee(e, t, status, emp) ==
    LET snap == tasks[t]
        edited == [snap EXCEPT !.status = status]
        R(code) == Response("updateTask", code, IF code = 200 THEN t ELSE 0)
    IN IF snap.assignedEmployee # e
       THEN last' = R(403) /\ UNCHANGED <<tasks, notifications>>
       ELSE IF emp # Undefined
       THEN last' = R(403) /\ UNCHANGED <<tasks, notifications>>
       ELSE IF status = Undefined
       THEN last' = R(400) /\ UNCHANGED <<tasks, notifications>>
       ELSE IF status \notin {"Pending", "In Progress", "Completed"}
       THEN last' = R(400) /\ UNCHANGED <<tasks, notifications>>
       ELSE /\ tasks' = [tasks EXCEPT ![t] = SaveResult(snap, snap, edited)]
            /\ IF status = "Completed"
               THEN notifications' \in CreateNotification(notifications,
                           Notification(snap.createdBy, "Manager", "task", t))
               ELSE UNCHANGED notifications
            /\ last' = R(200)

\* updateTask behind protectManagerOrEmployee: u is a Manager or an Employee
updateTask(u, t, status, emp) ==
    /\ IF t \notin DOMAIN tasks
       THEN /\ last' = Response("updateTask", 404, 0)
            /\ UNCHANGED <<tasks, notifications>>
       ELSE IF u \in Managers
       THEN UpdateTaskManager(u, t, status, emp) /\ UNCHANGED notifications
       ELSE UpdateTaskEmployee(u, t, status, emp)
    /\ UNCHANGED <<projects, nTasks, reqs, sent, calls>>

\* --------------------------------------------------------- DELETE /tasks/:id
deleteTask(m, t) ==
    /\ IF t \notin DOMAIN tasks
       THEN /\ last' = Response("deleteTask", 404, 0)
            /\ UNCHANGED tasks
       ELSE IF tasks[t].createdBy # m
       THEN /\ last' = Response("deleteTask", 403, 0)
            /\ UNCHANGED tasks
       ELSE /\ tasks' = Remove(tasks, t)
            /\ last' = Response("deleteTask", 200, t)
    /\ UNCHANGED <<projects, notifications, nTasks, reqs, sent, calls>>

\* -------------------------------------------------------- PUT /projects/:id
\* updateProject with a body that carries at most {status}; u is any
\* authenticated principal (protectAny)
\* updateProject forcing the progress to 100 on every status it is given
updateProjectForcingProgress(u, p, status) ==
    LET R(code) == Response("updateProject", code, 0) IN
    /\ IF p \notin DOMAIN projects
       THEN last' = R(404) /\ UNCHANGED projects
       ELSE IF u \notin Admins /\ projects[p].createdBy # u
       THEN last' = R(403) /\ UNCHANGED projects
       ELSE IF status # Undefined /\ status \notin ProjectStatuses
       THEN last' = R(500) /\ UNCHANGED projects
       ELSE /\ projects' = [projects EXCEPT
                  ![p].status = IF status # Undefined THEN status ELSE @,
                  ![p].progress = IF status # Undefined THEN 100 ELSE @]
            /\ last' = R(200)
    /\ UNCHANGED <<tasks, notifications, nTasks, reqs, sent, calls>>

updateProject(u, p, status) ==
    LET R(code) == Response("updateProject", code, 0) IN
    /\ IF p \notin DOMAIN projects
       THEN last' = R(404) /\ UNCHANGED projects
       ELSE IF u \notin Admins /\ projects[p].createdBy # u
       THEN last' = R(403) /\ UNCHANGED projects
       ELSE IF status # Undefined /\ status \notin ProjectStatuses
       THEN last' = R(500) /\ UNCHANGED projects
       ELSE /\ projects' = [projects EXCEPT
                  ![p].status = IF status # Undefined THEN status ELSE @,
                  ![p].progress = IF status = "Completed" THEN 100 ELSE @]
            /\ last' = R(200)
    /\ UNCHANGED <<tasks, notifications, nTasks, reqs, sent, calls>>

\* ----------------------------------------------------- DELETE /projects/:id
deleteProject(u, p) ==
    LET R(code) == Response("deleteProject", code, 0) IN
    /\ IF p \notin DOMAIN projects
       THEN last' = R(404) /\ UNCHANGED <<projects, tasks>>
       ELSE IF u \notin Admins /\ projects[p].createdBy # u
       THEN last' = R(403) /\ UNCHANGED <<projects, tasks>>
       ELSE /\ tasks' = [t \in DOMAIN tasks \ ProjectTasks(tasks, p) |-> tasks[t]]
            /\ projects' = Remove(projects, p)
            /\ last' = R(200)
    /\ UNCHANGED <<notifications, nTasks, reqs, sent, calls>>

\* ------------------------------------------------ DELETE /notifications/:id
\* i is the position of the addressed notification document
deleteNotification(u, userType, i) ==
    LET R(code) == Response("deleteNotification", code, 0) IN
    /\ IF /\ i \in 1..Len(notifications)
          /\ notifications[i].userId = u
          /\ notifications[i].userType = userType
       THEN /\ notifications' = SubSeq(notifications, 1, i - 1)
                                  \o SubSeq(notifications, i + 1, Len(notifications))
            /\ last' = R(200)
       ELSE /\ last' = R(404)
            /\ UNCHANGED notifications
    /\ UNCHANGED <<tasks, projects, nTasks, reqs, sent, calls>>

\* ------------------------------------------- PUT /notifications/:id/read
\* a markAsRead that lets an Admin mark any Notification
markAsReadAdminBypass(u, userType, i) ==
    LET R(code) == Response("markAsRead", code, 0) IN
    /\ IF /\ i \in 1..Len(notifications)
          /\ \/ userType = "Admin"
             \/ notifications[i].userId = u /\ notifications[i].userType = userType
       THEN /\ notifications' = [notifications EXCEPT ![i].isRead = TRUE]
            /\ last' = R(200)
       ELSE /\ last' = R(404)
            /\ UNCHANGED notifications
    /\ UNCHANGED <<tasks, projects, nTasks, reqs, sent, calls>>

\* i is a well-formed id: the Notification stored at i, or none when i is
\* beyond the stored ones
markAsRead(u, userType, i) ==
    LET R(code) == Response("markAsRead", code, 0) IN
    /\ IF /\ i \in 1..Len(notifications)
          /\ notifications[i].userId = u
          /\ notifications[i].userType = userType
       THEN /\ notifications' = [notifications EXCEPT ![i].isRead = TRUE]
            /\ last' = R(200)
       ELSE /\ last' = R(404)
            /\ UNCHANGED notifications
    /\ UNCHANGED <<tasks, projects, nTasks, reqs, sent, calls>>

\* ------------------------------------------- PUT /notifications/read-all
markAllAsRead(u, userType) ==
    /\ notifications' =
          [i \in 1..Len(notifications) |->
              IF /\ notifications[i].userId = u
                 /\ notifications[i].userType = userType
                 /\ notifications[i].isRead = FALSE
              THEN [notifications[i] EXCEPT !.isRead = TRUE]
              ELSE notifications[i]]
    /\ last' = Response("markAllAsRead", 200, 0)
    /\ UNCHANGED <<tasks, projects, nTasks, reqs, sent, calls>>

\* getUserType(req.user.role)
UserTypeOf(u) ==
    IF u \in Managers THEN "Manager" ELSE IF u \in Employees THEN "Employee" ELSE "Admin"

\* ------------------------------------------------- authorization middleware
\* what the Authorization header carries: nothing, a token jwt.verify rejects
\* (JsonWebTokenError), a token past its exp (TokenExpiredError), or a token
\* jwt.verify decodes to {id, role}
Roles == {"admin", "manager", "employee"}
PrincipalIds == Users \cup {"gone"}
Credentials ==
    [kind : {"none", "invalid", "expired"}, role : {"none"}, id : {"none"}]
       \cup [kind : {"valid"}, role : Roles, id : PrincipalIds]

\* what a middleware did: answered `code` itself, or called next() with req.user
Refused(code) == [code |-> code, user |-> "none"]
Passed(user) == [code |-> 0, user |-> user]

\* a protectManager that does not look at decoded.role; C19 must tell it apart
ProtectManagerAnyRole(cred) ==
    IF cred.kind # "valid" THEN Refused(401)
    ELSE IF cred.id \notin Managers THEN Refused(401)
    ELSE Passed(cred.id)

\* protectManager
ProtectManager(cred) ==
    IF cred.kind = "none" THEN Refused(401)
    ELSE IF cred.kind \in {"expired", "invalid"} THEN Refused(401)
    ELSE IF cred.role # "manager" THEN Refused(403)
    ELSE IF cred.id \notin Managers THEN Refused(401)
    ELSE Passed(cred.id)

\* protectEmployee
ProtectEmployee(cred) ==
    IF cred.kind = "none" THEN Refused(401)
    ELSE IF cred.kind \in {"expired", "invalid"} THEN Refused(401)
    ELSE IF cred.role # "employee" THEN Refused(403)
    ELSE IF cred.id \notin Employees THEN Refused(401)
    ELSE Passed(cred.id)

\* router.post('/:id/progress', protectEmployee, ..., updateTaskProgress)
PostProgress(cred, t, upload, d) ==
    LET auth == ProtectEmployee(cred) IN
    IF auth.code # 0
    THEN /\ last' = Response("submit", auth.code, 0)
         /\ UNCHANGED <<tasks, projects, notifications, nTasks, reqs, sent, calls>>
    ELSE Submit(auth.user, t, upload, d)

\* router.put('/:id/approve', protectManager, approveTaskProgress)
PutApprove(cred, t, status, note, d) ==
    LET auth == ProtectManager(cred) IN
    IF auth.code # 0
    THEN /\ last' = Response("decide", auth.code, 0)
         /\ UNCHANGED <<tasks, projects, notifications, nTasks, reqs, sent, calls>>
    ELSE Decide(auth.user, t, status, note, d)

\* ------------------------------------------------------------------ reads
\* Manager.employees: the Employees a Manager manages
Team == [m \in Managers |-> IF m = "m1" THEN {"e1"} ELSE {"e2"}]

\* the answer of a read handler: `code`, with the Tasks `ts` in its body
Answer(op, u, code, ts) ==
    /\ last' = Response(op, code, 0)
    /\ sent' = Body(u, ts)
    /\ UNCHANGED <<tasks, projects, notifications, nTasks, reqs, calls>>

\* GET /tasks/:id
getTaskById(u, t) ==
    IF t \notin DOMAIN tasks THEN Answer("getTaskById", u, 404, {})
    ELSE IF u \in Admins THEN Answer("getTaskById", u, 200, {t})
    ELSE IF u \in Managers /\ tasks[t].createdBy # u
    THEN Answer("getTaskById", u, 403, {})
    ELSE IF u \in Employees /\ tasks[t].assignedEmployee # u
    THEN Answer("getTaskById", u, 403, {})
    ELSE Answer("getTaskById", u, 200, {t})

\* GET /tasks/project/:projectId
getTasksByProject(u, p) ==
    IF p \notin DOMAIN projects THEN Answer("getTasksByProject", u, 404, {})
    ELSE IF u \in Managers
    THEN IF projects[p].createdBy # u
         THEN Answer("getTasksByProject", u, 403, {})
         ELSE Answer("getTasksByProject", u, 200, ProjectTasks(tasks, p))
    ELSE IF u \in Employees
    THEN IF u \notin projects[p].assignedEmployees
         THEN Answer("getTasksByProject", u, 403, {})
         ELSE Answer("getTasksByProject", u, 200,
                     {t \in ProjectTasks(tasks, p) : tasks[t].assignedEmployee = u})
    ELSE Answer("getTasksByProject", u, 200, ProjectTasks(tasks, p))

\* GET /tasks/my-tasks (employeeId = Undefined) and GET /tasks/employee/:employeeId,
\* first page, with fewer Tasks than the page holds
getMyTasks(u, employeeId) ==
    LET targetEmployeeId == IF employeeId # Undefined THEN employeeId ELSE u IN
    IF u \in Employees /\ targetEmployeeId # u
    THEN Answer("getMyTasks", u, 403, {})
    ELSE Answer("getMyTasks", u, 200,
                {t \in DOMAIN tasks : tasks[t].assignedEmployee = targetEmployeeId})

\* GET /tasks without query filters, first page
getTasks(u) ==
    IF u \in Managers
    THEN Answer("getTasks", u, 200,
                {t \in DOMAIN tasks : \/ tasks[t].createdBy = u
                                      \/ tasks[t].assignedEmployee \in Team[u]})
    ELSE IF u \in Employees
    THEN Answer("getTasks", u, 200, {t \in DOMAIN tasks : tasks[t].assignedEmployee = u})
    ELSE Answer("getTasks", u, 200, DOMAIN tasks)

\* GET /projects/:id: the project with the Tasks that reference it
getProjectById(u, p) ==
    IF p \notin DOMAIN projects THEN Answer("getProjectById", u, 404, {})
    ELSE IF u \in Managers /\ projects[p].createdBy # u
    THEN Answer("getProjectById", u, 403, {})
    ELSE IF u \in Employees /\ u \notin projects[p].assignedEmployees
    THEN Answer("getProjectById", u, 403, {})
    ELSE Answer("getProjectById", u, 200, ProjectTasks(tasks, p))

\* ------------------------------------------- the workflow handlers, step by step
\* Each await of updateTaskProgress / approveTaskProgress is one step; a request
\* that has read its Task occupies a slot until it has answered.
Await == Response("await", 0, 0)

InFlight(kind, by, t, body, d, snap, phase) ==
    [kind |-> kind, by |-> by, task |-> t, body |-> body, date |-> d,
     snap |-> snap, phase |-> phase, pct |-> 0]

\* updateTaskProgress up to its task.save(): Task.findById and the two checks
SubmitRead(s, e, t, upload, d) ==
    /\ reqs[s] = Idle
    /\ IF t \notin DOMAIN tasks
       THEN last' = Response("submit", 404, 0) /\ UNCHANGED reqs
       ELSE IF tasks[t].assignedEmployee # e
       THEN last' = Response("submit", 403, 0) /\ UNCHANGED reqs
       ELSE /\ reqs' = [reqs EXCEPT ![s] = InFlight("submit", e, t, upload, d, tasks[t], "save")]
            /\ last' = Await
    /\ UNCHANGED <<tasks, projects, notifications, nTasks, sent, calls>>

\* updateTaskProgress from task.save() to the response
SubmitSave(s) ==
    /\ reqs[s] # Idle
    /\ reqs[s].kind = "submit"
    /\ SubmitCommit(reqs[s].by, reqs[s].task, reqs[s].body, reqs[s].date, reqs[s].snap)
    /\ reqs' = [reqs EXCEPT ![s] = Idle]
    /\ UNCHANGED <<projects, nTasks, sent, calls>>

DecideBody(status, note) == [status |-> status, note |-> note]

\* approveTaskProgress up to its task.save()
DecideRead(s, m, t, status, note, d) ==
    /\ reqs[s] = Idle
    /\ IF t \notin DOMAIN tasks
       THEN last' = Response("decide", 404, 0) /\ UNCHANGED reqs
       ELSE IF tasks[t].createdBy # m
       THEN last' = Response("decide", 403, 0) /\ UNCHANGED reqs
       ELSE IF Len(tasks[t].progressUpdates) = 0
       THEN last' = Response("decide", 400, 0) /\ UNCHANGED reqs
       ELSE /\ reqs' = [reqs EXCEPT ![s] =
                          InFlight("decide", m, t, DecideBody(status, note), d, tasks[t], "save")]
            /\ last' = Await
    /\ UNCHANGED <<tasks, projects, notifications, nTasks, sent, calls>>

\* await task.save() of approveTaskProgress
DecideSave(s) ==
    /\ reqs[s] # Idle
    /\ reqs[s].kind = "decide"
    /\ reqs[s].phase = "save"
    /\ LET r == reqs[s]
           edited == DecideEdit(r.snap, r.body.status, r.body.note, r.date)
       IN IF r.task \in DOMAIN tasks /\ SaveOK(tasks[r.task], r.snap, edited)
          THEN /\ tasks' = [tasks EXCEPT ![r.task] = SaveResult(tasks[r.task], r.snap, edited)]
               /\ reqs' = [reqs EXCEPT ![s].phase = "find"]
               /\ last' = Await
          ELSE /\ reqs' = [reqs EXCEPT ![s] = Idle]
               /\ last' = Response("decide", 500, 0)
               /\ UNCHANGED tasks
    /\ UNCHANGED <<projects, notifications, nTasks, sent, calls>>

\* await Task.find({project}) and the percentage computed from its result
DecideFind(s) ==
    /\ reqs[s] # Idle
    /\ reqs[s].kind = "decide"
    /\ reqs[s].phase = "find"
    /\ reqs' = [reqs EXCEPT ![s].phase = "write",
                            ![s].pct = ProgressPercentage(tasks, reqs[s].snap.project)]
    /\ last' = Await
    /\ UNCHANGED <<tasks, projects, notifications, nTasks, sent, calls>>

\* await Project.findByIdAndUpdate, createNotification and the response
DecideWrite(s) ==
    /\ reqs[s] # Idle
    /\ reqs[s].kind = "decide"
    /\ reqs[s].phase = "write"
    /\ DecideFinish(reqs[s].by, reqs[s].task, reqs[s].body.status, reqs[s].body.note,
                    reqs[s].snap, reqs[s].pct)
    /\ reqs' = [reqs EXCEPT ![s] = Idle]
    /\ UNCHANGED <<tasks, nTasks, sent, calls>>

Init ==
    /\ tasks = << >>
    /\ projects = [p \in ProjectIds |-> NewProject("m1", {"e1"})]
    /\ notifications = << >>
    /\ nTasks = 0
    /\ reqs = [s \in Slots |-> Idle]
    /\ last = NoRequest
    /\ sent = NoBody
    /\ calls = << >>

\* the part of the state space explored: the bounds on the store
Within(maxTasks, maxUpdates) ==
    /\ nTasks <= maxTasks
    /\ \A t \in DOMAIN tasks : Len(tasks[t].progressUpdates) <= maxUpdates
    /\ Len(notifications) <= MaxNotifications

Bounded == Within(MaxTasks, MaxUpdates)

Next ==
    \/ \E e \in Employees, t \in TaskIds, upload \in Uploads, d \in Dates :
          Submit(e, t, upload, d) /\ Bounded'
    \/ \E m \in Managers, t \in TaskIds, status \in DecideStatuses, note \in ApprovalNotes,
          d \in Dates :
          Decide(m, t, status, note, d) /\ Bounded'
    \/ \E m \in Managers, p \in ProjectIds, e \in Employees :
          createTask(m, p, e) /\ Bounded'
    \/ \E u \in Managers \cup Employees, t \in TaskIds, status \in UpdateTaskStatuses,
          emp \in Employees \cup {Undefined} :
          updateTask(u, t, status, emp) /\ Bounded'
    \/ \E m \in Managers, t \in TaskIds : deleteTask(m, t)
    \/ \E u \in Users, p \in ProjectIds, status \in UpdateProjectStatuses :
          updateProject(u, p, status)
    \/ \E u \in Users, p \in ProjectIds : deleteProject(u, p)
    \/ \E u \in Users, i \in 1..MaxNotifications : deleteNotification(u, UserTypeOf(u), i)

Spec == Init /\ [][Next]_vars

\* Overlapping workflow requests on the tasks of project p1, issued by the
\* assigned Employee and the creating Manager.
NextConc ==
    \/ \E m \in Managers, p \in ProjectIds, e \in Employees :
          createTask(m, p, e) /\ Bounded'
    \/ \E s \in Slots, t \in TaskIds, upload \in Uploads, d \in Dates :
          SubmitRead(s, "e1", t, upload, d)
    \/ \E s \in Slots : SubmitSave(s) /\ Bounded'
    \/ \E s \in Slots, t \in TaskIds, status \in {"approved", "rejected"}, d \in Dates :
          DecideRead(s, "m1", t, status, Undefined, d)
    \/ \E s \in Slots : DecideSave(s)
    \/ \E s \in Slots : DecideFind(s)
    \/ \E s \in Slots : DecideWrite(s) /\ Bounded'
    \/ \E u \in Users, i \in 1..MaxNotifications : deleteNotification(u, UserTypeOf(u), i)

SpecConc == Init /\ [][NextConc]_vars

\* Project p1 with up to MaxProjectTasks tasks, driven by its Manager m1 and
\* its Employee e1: the requests that change the Task set, the Task statuses
\* and the stored progress.
BoundedProgress == Within(MaxProjectTasks, MaxProjectUpdates)

NextProgress ==
    \/ createTask("m1", "p1", "e1") /\ BoundedProgress'
    \/ \E t \in 1..MaxProjectTasks, d \in Dates :
          Submit("e1", t, CHOOSE u \in Uploads : u.files = << >>, d) /\ BoundedProgress'
    \/ \E t \in 1..MaxProjectTasks, status \in {"approved", "rejected"}, d \in Dates :
          Decide("m1", t, status, Undefined, d) /\ BoundedProgress'
    \/ \E t \in 1..MaxProjectTasks, status \in {"Pending", "Completed"} :
          updateTask("m1", t, status, Undefined)
    \/ \E t \in 1..MaxProjectTasks : deleteTask("m1", t)
    \/ updateProject("m1", "p1", "Completed")
    \/ \E u \in {"m1", "e1"} : deleteNotification(u, UserTypeOf(u), 1)

SpecProgress == Init /\ [][NextProgress]_vars

\* The workflow on project p1 with a store that may reject the reads and
\* writes approveTaskProgress issues after it has saved the Task.
NextStore ==
    \/ \E e \in Employees : createTask("m1", "p1", e) /\ Bounded'
    \/ \E e \in Employees, t \in TaskIds, upload \in Uploads, d \in Dates :
          Submit(e, t, upload, d) /\ Bounded'
    \/ \E m \in Managers, t \in TaskIds, status \in DecideStatuses, note \in ApprovalNotes,
          d \in Dates :
          Decide(m, t, status, note, d) /\ Bounded'
    \/ \E m \in Managers, t \in TaskIds, status \in DecideStatuses, note \in ApprovalNotes,
          d \in Dates :
          DecideStoreFailure(m, t, status, note, d) /\ Bounded'
    \/ \E m \in Managers, t \in TaskIds : deleteTask(m, t)
    \/ \E u \in Users, i \in 1..MaxNotifications : deleteNotification(u, UserTypeOf(u), i)

SpecStore == Init /\ [][NextStore]_vars

\* Project p1 of Manager m1 with both Employees assigned, its Tasks, and
\* every principal reading them.
InitRead ==
    /\ tasks = << >>
    /\ projects = [p \in ProjectIds |-> NewProject("m1", Employees)]
    /\ notifications = << >>
    /\ nTasks = 0
    /\ reqs = [s \in Slots |-> Idle]
    /\ last = NoRequest
    /\ sent = NoBody
    /\ calls = << >>

BoundedRead == Within(MaxReadTasks, MaxUpdates)

NextRead ==
    \/ \E e \in Employees : createTask("m1", "p1", e) /\ BoundedRead'
    \/ \E t \in 1..MaxReadTasks : deleteTask("m1", t)
    \/ \E u \in Users, i \in 1..MaxNotifications : deleteNotification(u, UserTypeOf(u), i)
    \/ \E u \in Users, t \in 1..MaxReadTasks : getTaskById(u, t)
    \/ \E u \in Users, p \in ProjectIds : getTasksByProject(u, p)
    \/ \E u \in Employees : getMyTasks(u, Undefined)
    \/ \E u \in Users, e \in Employees : getMyTasks(u, e)
    \/ \E u \in Users : getTasks(u)
    \/ \E u \in Users, p \in ProjectIds : getProjectById(u, p)

SpecRead == InitRead /\ [][NextRead]_vars

\* The workflow endpoints behind their middleware, called with every credential.
NextAuth ==
    \/ createTask("m1", "p1", "e1") /\ Bounded'
    \/ \E cred \in Credentials, t \in TaskIds, upload \in Uploads, d \in Dates :
          PostProgress(cred, t, upload, d) /\ Bounded'
    \/ \E cred \in Credentials, t \in TaskIds, status \in {"approved", "rejected"},
          d \in Dates :
          PutApprove(cred, t, status, Undefined, d) /\ Bounded'
    \/ \E u \in Users, i \in 1..MaxNotifications : deleteNotification(u, UserTypeOf(u), i)

SpecAuth == Init /\ [][NextAuth]_vars

\* The inbox requests of every principal on the Notifications the workflow
\* of Manager m1 and Employee e1 on project p1 creates.
BoundedNotify ==
    /\ nTasks <= MaxTasks
    /\ \A t \in DOMAIN tasks : Len(tasks[t].progressUpdates) <= MaxUpdates
    /\ Len(notifications) <= MaxInbox

NextNotify ==
    \/ createTask("m1", "p1", "e1") /\ BoundedNotify'
    \/ \E t \in TaskIds, d \in Dates :
          Submit("e1", t, CHOOSE u \in Uploads : u.files = << >>, d) /\ BoundedNotify'
    \/ \E t \in TaskIds, status \in {"approved", "rejected"}, d \in Dates :
          Decide("m1", t, status, Undefined, d) /\ BoundedNotify'
    \/ \E u \in Users, i \in 1..MaxInbox : markAsRead(u, UserTypeOf(u), i)
    \/ \E u \in Users : markAllAsRead(u, UserTypeOf(u))
    \/ \E u \in Users, i \in 1..MaxInbox : deleteNotification(u, UserTypeOf(u), i)

SpecNotify == Init /\ [][NextNotify]_vars

\* createNotification called for every recipient, with every outcome of its
\* store, of the recipient lookup and of the messaging provider.
NextFanout ==
    \/ \E u \in {"m1", "e1", "a1"}, t \in TaskIds, env \in PushEnvs, create \in CreateOutcomes :
          /\ createNotification(Notification(u, UserTypeOf(u), "task", t), env, create)
          /\ Len(notifications') <= MaxInbox
    \/ \E u \in Users, i \in 1..MaxInbox : deleteNotification(u, UserTypeOf(u), i)

SpecFanout == Init /\ [][NextFanout]_vars

\* Two Tasks of project p1, each with a submitted ProgressUpdate, and the
\* decides of Manager m1 on them running step by step, at most one request
\* in flight per Task; Tasks are created and submitted to between requests.
BoundedRace == Within(MaxRaceTasks, MaxProjectUpdates)

Quiet == \A s \in Slots : reqs[s] = Idle

NextRace ==
    \/ Quiet /\ createTask("m1", "p1", "e1") /\ BoundedRace'
    \/ \E t \in 1..MaxRaceTasks, d \in Dates :
          /\ Quiet
          /\ Submit("e1", t, CHOOSE u \in Uploads : u.files = << >>, d)
          /\ BoundedRace'
    \/ \E s \in Slots, t \in 1..MaxRaceTasks, status \in {"approved", "rejected"},
          d \in Dates :
          /\ \A o \in Slots : reqs[o] # Idle => reqs[o].task # t
          /\ DecideRead(s, "m1", t, status, Undefined, d)
    \/ \E s \in Slots : DecideSave(s)
    \/ \E s \in Slots : DecideFind(s)
    \/ \E s \in Slots : DecideWrite(s) /\ BoundedRace'
    \/ \E u \in {"m1", "e1"} : deleteNotification(u, UserTypeOf(u), 1)

SpecRace == Init /\ [][NextRace]_vars

\* The workflow on one Task of project p1: Employee e1 submits, Manager m1
\* decides and keeps doing so, the Task is never deleted. Requests that
\* succeed keep being issued: the decides of m1 on each Task, and the
\* removal of read Notifications that makes room for the next one.
DecideAccepted(t) ==
    \E status \in {"approved", "rejected"}, d \in Dates :
        Decide("m1", t, status, Undefined, d) /\ last'.code = 200 /\ Bounded'

NotificationCleared ==
    \E u \in {"m1", "e1"} : deleteNotification(u, UserTypeOf(u), 1) /\ last'.code = 200

NextLive ==
    \/ createTask("m1", "p1", "e1") /\ Bounded'
    \/ \E t \in TaskIds, upload \in Uploads, d \in Dates :
          Submit("e1", t, upload, d) /\ Bounded'
    \/ \E t \in TaskIds, status \in {"approved", "rejected"}, d \in Dates :
          Decide("m1", t, status, Undefined, d) /\ Bounded'
    \/ \E u \in {"m1", "e1"} : deleteNotification(u, UserTypeOf(u), 1)

SpecLive ==
    /\ Init /\ [][NextLive]_vars
    /\ \A t \in TaskIds : SF_vars(DecideAccepted(t))
    /\ WF_vars(NotificationCleared)

\* =================================================================== properties
Updates(t) == tasks[t].progressUpdates

PendingAt(doc) ==
    {i \in 1..Len(doc.progressUpdates) : doc.progressUpdates[i].approvalStatus = "pending"}

LatestIsPending(doc) ==
    /\ Len(doc.progressUpdates) > 0
    /\ doc.progressUpdates[Len(doc.progressUpdates)].approvalStatus = "pending"

Finalized(u) == u.approvalStatus \in {"approved", "rejected"}

\* round(100 * completed / total), halves up, stated without the division
Rounded(completed, total) ==
    CHOOSE r \in 0..100 :
        /\ 2 * total * r <= 200 * completed + total
        /\ 200 * completed + total < 2 * total * (r + 1)

\* the progress a Project should show for the Tasks that reference it now
DerivedProgress(p) ==
    LET mine == {t \in DOMAIN tasks : tasks[t].project = p}
        done == {t \in mine : tasks[t].status = "Completed"}
    IN IF mine = {} THEN 0 ELSE Rounded(Cardinality(done), Cardinality(mine))

\* C1: in every reachable state a Task has at most one ProgressUpdate whose
\* approvalStatus is pending, whatever submits and decides ran or overlapped.
C1_AtMostOnePending ==
    \A t \in DOMAIN tasks : Cardinality(PendingAt(tasks[t])) <= 1

\* C2: in every reachable state pendingApproval is true exactly when some
\* ProgressUpdate of the Task is pending.
C2_PendingApprovalIffSomePending ==
    \A t \in DOMAIN tasks : tasks[t].pendingApproval <=> PendingAt(tasks[t]) # {}

\* C3: in every reachable state pendingApproval equals "the highest-index
\* ProgressUpdate is pending" (false for a Task without ProgressUpdates), also
\* when a submit and a decide on the Task overlap.
C3_PendingApprovalIsLatestPending ==
    \A t \in DOMAIN tasks : tasks[t].pendingApproval <=> LatestIsPending(tasks[t])

\* C4: a submit by the assigned Employee on a Task that is awaiting approval
\* (pendingApproval = true) is not accepted: every accepted submit finds the
\* Task with pendingApproval = false.
C4_SubmitOnlyWhenNotAwaiting ==
    [][(last'.op = "submit" /\ last'.code = 200)
          => ~tasks[last'.task].pendingApproval]_vars

\* C5: a decide by the creating Manager on a Task whose latest ProgressUpdate
\* is already approved or rejected answers 400 and changes neither the Task,
\* nor the Project, nor the notifications.
C5_DecideOnFinalizedRejected ==
    [][last'.op = "decide" =>
       \A m \in Managers, t \in DOMAIN tasks, status \in {"approved", "rejected"},
          note \in ApprovalNotes, d \in Dates :
          (/\ tasks[t].createdBy = m
           /\ Len(Updates(t)) > 0
           /\ Finalized(Updates(t)[Len(Updates(t))])
           /\ Decide(m, t, status, note, d))
             => (/\ last'.code = 400
                 /\ UNCHANGED <<tasks, projects, notifications>>)]_vars

\* C6: in every reachable state every Project's progress is
\* within 0..100 and equals round(100 * completed / total) over the Tasks that
\* reference it now (0 without Tasks).
C6_ProgressAlwaysDerived ==
    \A p \in DOMAIN projects :
        /\ projects[p].progress \in 0..100
        /\ projects[p].progress = DerivedProgress(p)

C8_SubmitAppendsPending ==
    [][(last'.op = "submit" /\ last'.code = 200)
          => LET t == last'.task
                 old == tasks[t].progressUpdates
                 new == tasks'[t].progressUpdates
             IN /\ Len(new) = Len(old) + 1
                /\ SubSeq(new, 1, Len(old)) = old
                /\ new[Len(new)].approvalStatus = "pending"
                /\ new[Len(new)].submittedAt \in Dates
                /\ tasks'[t].status = "In Progress"
                /\ tasks'[t].pendingApproval = TRUE]_vars

C8_Witness ==
    /\ last.op = "submit" /\ last.code = 200
    /\ \E t \in DOMAIN tasks :
          /\ Len(Updates(t)) = 2
          /\ Updates(t)[1].approvalStatus = "approved"
          /\ Updates(t)[2].approvalStatus = "pending"

\* C9: a successful decide with decision d in {approved, rejected} and note n
\* gives the pending ProgressUpdate approvalStatus = d, approvalNote = n and
\* approvedAt, sets pendingApproval = false and status = Completed (approved)
\* or In Progress (rejected), and modifies no other ProgressUpdate.
C9_DecideFinalizesThePending ==
    [][(last'.op = "decide" /\ last'.code = 200) =>
       \A m \in Managers, t \in DOMAIN tasks, status \in {"approved", "rejected"},
          note \in ApprovalNotes, d \in Dates :
          (Decide(m, t, status, note, d) /\ last'.code = 200)
             => LET old == tasks[t].progressUpdates
                    new == tasks'[t].progressUpdates
                IN /\ Len(new) = Len(old)
                   /\ \A i \in 1..Len(old) :
                         IF old[i].approvalStatus = "pending"
                         THEN /\ new[i].approvalStatus = status
                              /\ new[i].approvalNote = note
                              /\ new[i].approvedAt \in Dates
                         ELSE new[i] = old[i]
                   /\ tasks'[t].pendingApproval = FALSE
                   /\ tasks'[t].status =
                         (IF status = "approved" THEN "Completed" ELSE "In Progress")]_vars

\* C10: a submit by an Employee who is not the assignedEmployee answers 403 and
\* a submit on an id that resolves to no Task answers 404; neither changes a
\* Task or creates a notification.
C10_SubmitRefused ==
    [][last'.op = "submit" =>
       \A e \in Employees, t \in TaskIds, upload \in Uploads, d \in Dates :
          Submit(e, t, upload, d)
             => /\ t \notin DOMAIN tasks
                   => (last'.code = 404 /\ UNCHANGED <<tasks, notifications>>)
                /\ (t \in DOMAIN tasks /\ tasks[t].assignedEmployee # e)
                   => (last'.code = 403 /\ UNCHANGED <<tasks, notifications>>)]_vars

C10_Witness ==
    /\ last.op = "submit" /\ last.code = 403
    /\ \E t \in DOMAIN tasks : Len(Updates(t)) > 0

\* C11: a decide by a Manager who did not create the Task answers 403 and
\* changes neither the Task, nor the Project, nor the notifications.
C11_DecideByNonOwnerRefused ==
    [][last'.op = "decide" =>
       \A m \in Managers, t \in DOMAIN tasks, status \in DecideStatuses,
          note \in ApprovalNotes, d \in Dates :
          (tasks[t].createdBy # m /\ Decide(m, t, status, note, d))
             => (/\ last'.code = 403
                 /\ UNCHANGED <<tasks, projects, notifications>>)]_vars

C11_Witness ==
    /\ last.op = "decide" /\ last.code = 403
    /\ \E t \in DOMAIN tasks : tasks[t].createdBy = "m1" /\ tasks[t].pendingApproval

\* C12: a decide by the creating Manager on a Task without ProgressUpdates
\* answers 400 and changes neither the Task, nor the Project, nor the
\* notifications.
C12_DecideWithoutUpdatesRefused ==
    [][last'.op = "decide" =>
       \A m \in Managers, t \in DOMAIN tasks, status \in DecideStatuses,
          note \in ApprovalNotes, d \in Dates :
          (/\ tasks[t].createdBy = m
           /\ Len(Updates(t)) = 0
           /\ Decide(m, t, status, note, d))
             => (/\ last'.code = 400
                 /\ UNCHANGED <<tasks, projects, notifications>>)]_vars

C12_Witness ==
    /\ last.op = "decide" /\ last.code = 400
    /\ \E t \in DOMAIN tasks : Len(Updates(t)) = 0 /\ tasks[t].status = "Pending"

\* the recipient of the notification of a workflow event on Task document doc
EventRecipient(op, doc) ==
    IF op = "submit"
    THEN [userId |-> doc.createdBy, userType |-> "Manager"]
    ELSE [userId |-> doc.assignedEmployee, userType |-> "Employee"]

C15_CommittedDecideNotifies ==
    [][(last'.op = "decide" /\ last'.task # 0)
          => LET t == last'.task
                 k == Len(notifications)
             IN /\ Len(notifications') = k + 1
                /\ notifications'[k + 1].userId = tasks'[t].assignedEmployee
                /\ notifications'[k + 1].userType = "Employee"
                /\ notifications'[k + 1].relatedId = t]_vars

\* C16: when the store rejects the progress recompute or write after decide
\* saved the Task, the decision stays: the latest ProgressUpdate carries the
\* decision and the note, pendingApproval is false and the Task status is
\* the decided one.
C16_DecisionSurvivesStoreFailure ==
    [][(last'.op = "decide" /\ last'.code = 500 /\ last'.task # 0)
          => \A m \in Managers, status \in DecideStatuses, note \in ApprovalNotes,
                d \in Dates :
                DecideStoreFailure(m, last'.task, status, note, d)
                   => LET doc == tasks'[last'.task]
                          latest == doc.progressUpdates[Len(doc.progressUpdates)]
                      IN /\ latest.approvalStatus = status
                         /\ latest.approvalNote = note
                         /\ latest.approvedAt = d
                         /\ doc.pendingApproval = FALSE
                         /\ doc.status = (IF status = "approved" THEN "Completed"
                                          ELSE "In Progress")]_vars

C16_Witness ==
    /\ last.op = "decide" /\ last.code = 500 /\ last.task \in DOMAIN tasks
    /\ tasks[last.task].status = "Completed"
    /\ Updates(last.task)[Len(Updates(last.task))].approvalStatus = "approved"
    /\ projects[tasks[last.task].project].progress = 0

ReadOps == {"getTaskById", "getTasksByProject", "getMyTasks", "getTasks", "getProjectById"}

ListOps == {"getTasksByProject", "getMyTasks", "getTasks"}

\* C17: every Task a read operation returns to an Employee has that Employee
\* as its assignedEmployee.
C17_EmployeeReadsOwnTasksOnly ==
    (last.op \in ReadOps /\ sent.by \in Employees)
       => \A t \in sent.tasks : tasks[t].assignedEmployee = sent.by

\* C18: every Task a read operation returns to a Manager was created by that
\* Manager or, for a list operation, is assigned to an Employee the Manager
\* manages.
C18_ManagerReadsOwnOrTeamTasksOnly ==
    (last.op \in ReadOps /\ sent.by \in Managers)
       => \A t \in sent.tasks :
             \/ tasks[t].createdBy = sent.by
             \/ last.op \in ListOps /\ tasks[t].assignedEmployee \in Team[sent.by]

\* C19: submit gets past its middleware only with a valid credential of role
\* employee whose Employee exists, decide only with one of role manager
\* whose Manager exists; no, an invalid or an expired credential answers 401,
\* a valid credential of another role answers 403, and in both cases no
\* Task, Project or Notification changes.
C19_WorkflowEndpointsRoleGated ==
    [][last'.op \in {"submit", "decide"} =>
       \A cred \in Credentials, t \in TaskIds, d \in Dates :
          LET unauthenticated == cred.kind \in {"none", "invalid", "expired"}
              untouched == UNCHANGED <<tasks, projects, notifications>>
              gate(role) ==
                 /\ unauthenticated => (last'.code = 401 /\ untouched)
                 /\ (cred.kind = "valid" /\ cred.role # role)
                       => (last'.code = 403 /\ untouched)
          IN /\ \A upload \in Uploads :
                   PostProgress(cred, t, upload, d)
                      => /\ gate("employee")
                         /\ ~untouched => (cred.role = "employee" /\ cred.id \in Employees)
             /\ \A status \in {"approved", "rejected"} :
                   PutApprove(cred, t, status, Undefined, d)
                      => /\ gate("manager")
                         /\ ~untouched => (cred.role = "manager" /\ cred.id \in Managers)]_vars

C19_Witness ==
    /\ last.op = "decide" /\ last.code = 401
    /\ \E t \in DOMAIN tasks : tasks[t].pendingApproval /\ LatestIsPending(tasks[t])

C21_TaskRemovedByItsCreatorOnly ==
    [][(last'.op \in {"deleteTask", "deleteProject"} /\ last'.code = 200)
          => \A t \in DOMAIN tasks \ DOMAIN tasks' :
                /\ \A m \in Managers : deleteTask(m, t) => m = tasks[t].createdBy
                /\ \A u \in Users, p \in ProjectIds :
                      deleteProject(u, p) => u = tasks[t].createdBy]_vars

\* C22: a successful decide that rejects, and in which no Task of the Project
\* becomes Completed, leaves the Project's stored progress as it was.
C22_RejectKeepsProgress ==
    [][(last'.op = "decide" /\ last'.code = 200)
          => LET t == last'.task
                 p == tasks'[t].project
                 new == tasks'[t].progressUpdates
                 rejected == new[Len(new)].approvalStatus = "rejected"
                 noneCompleted ==
                    \A x \in DOMAIN tasks' :
                       tasks'[x].status = "Completed" => tasks[x].status = "Completed"
             IN (rejected /\ noneCompleted /\ p \in DOMAIN projects)
                   => projects'[p].progress = projects[p].progress]_vars

\* C27: in every reachable state a ProgressUpdate has approvedAt set exactly
\* when its approvalStatus is approved or rejected, and a pending
\* ProgressUpdate has neither approvedAt nor approvalNote, whatever status the
\* decide bodies carried.
C27_ApprovedAtIffFinalized ==
    \A t \in DOMAIN tasks : \A i \in 1..Len(Updates(t)) :
        LET u == Updates(t)[i] IN
        /\ (u.approvedAt # NoDate) <=> Finalized(u)
        /\ u.approvalStatus = "pending"
              => (u.approvedAt = NoDate /\ u.approvalNote = Undefined)

\* C29: in every reachable state a Task with status Completed has
\* pendingApproval = false and a latest ProgressUpdate that is approved.
C29_CompletedOnlyByApproval ==
    \A t \in DOMAIN tasks :
        tasks[t].status = "Completed"
           => /\ tasks[t].pendingApproval = FALSE
              /\ Len(Updates(t)) > 0
              /\ Updates(t)[Len(Updates(t))].approvalStatus = "approved"

\* C23: createTask, updateTask, deleteTask and submit leave every Project's
\* stored progress as it was; updateProject leaves it as it was unless it
\* succeeds with status Completed, and then stores exactly 100; a step that
\* changes a stored progress is a decide or an updateProject.
C23_ProgressInertOutsideApproval ==
    [][\A p \in DOMAIN projects \cap DOMAIN projects' :
          /\ last'.op \in {"createTask", "updateTask", "deleteTask", "submit"}
                => projects'[p].progress = projects[p].progress
          /\ last'.op = "updateProject"
                => \A u \in Users, status \in UpdateProjectStatuses :
                      updateProject(u, p, status)
                         => projects'[p].progress =
                               IF status = "Completed" /\ last'.code = 200
                               THEN 100 ELSE projects[p].progress
          /\ projects'[p].progress # projects[p].progress
                => last'.op \in {"decide", "updateProject"}]_vars

C23_Witness ==
    /\ last.op = "updateProject" /\ last.code = 200
    /\ "p1" \in DOMAIN projects
    /\ projects["p1"].status = "Completed"
    /\ projects["p1"].progress = 100
    /\ \E t \in DOMAIN tasks : tasks[t].project = "p1" /\ tasks[t].status = "In Progress"

\* the evidence an Employee submitted with a ProgressUpdate
Evidence(u) ==
    [photos |-> u.photos, voiceNote |-> u.voiceNote, notes |-> u.notes,
     submittedAt |-> u.submittedAt]

\* C24: in every step, for every Task that stays in the store, progressUpdates
\* does not shrink, every existing entry keeps its index and its evidence, an
\* entry is appended at the end only and only by a submit, and an existing
\* entry changes only in a decide and only at the highest index.
C24_ProgressUpdatesAppendOnly ==
    [][\A t \in DOMAIN tasks \cap DOMAIN tasks' :
          LET old == tasks[t].progressUpdates
              new == tasks'[t].progressUpdates
          IN /\ Len(new) >= Len(old)
             /\ \A i \in 1..Len(old) :
                   /\ Evidence(new[i]) = Evidence(old[i])
                   /\ new[i] # old[i] => (i = Len(old) /\ last'.op = "decide")
             /\ Len(new) > Len(old)
                   => (Len(new) = Len(old) + 1 /\ last'.op = "submit")]_vars

C24_Witness ==
    /\ last.op = "decide" /\ last.code = 200
    /\ \E t \in DOMAIN tasks :
          /\ Len(Updates(t)) = 2
          /\ Updates(t)[1].approvalStatus = "rejected"
          /\ Updates(t)[2].approvalStatus = "approved"
          /\ Updates(t)[1].notes # Updates(t)[2].notes

\* Notification n belongs to principal u in its role
Owns(u, n) == n.userId = u /\ n.userType = UserTypeOf(u)

\* the stored Notifications are as before except, possibly, for ones u owns
OnlyOwnChanged(u) ==
    /\ Len(notifications') = Len(notifications)
    /\ \A i \in 1..Len(notifications) :
          notifications'[i] # notifications[i] => Owns(u, notifications[i])

\* the stored Notifications are as before, or as before without one u owns
OnlyOwnDeleted(u) ==
    \/ notifications' = notifications
    \/ \E i \in 1..Len(notifications) :
          /\ Owns(u, notifications[i])
          /\ notifications' = SubSeq(notifications, 1, i - 1)
                                 \o SubSeq(notifications, i + 1, Len(notifications))

\* C25: markAsRead, markAllAsRead and deleteNotification called by a principal
\* in its role change only Notifications whose (userId, userType) is that
\* principal and role; markAsRead and deleteNotification aimed at a stored
\* Notification of somebody else answer 404 and change nothing; an Admin is
\* treated like everybody else.
C25_NotificationMutatedByOwnerOnly ==
    [][last'.op \in {"markAsRead", "markAllAsRead", "deleteNotification"}
          => \A u \in Users :
                /\ markAllAsRead(u, UserTypeOf(u)) => OnlyOwnChanged(u)
                /\ \A i \in 1..MaxInbox :
                      LET foreign == /\ i \in 1..Len(notifications)
                                     /\ ~Owns(u, notifications[i])
                      IN /\ markAsRead(u, UserTypeOf(u), i)
                            => /\ OnlyOwnChanged(u)
                               /\ foreign => (/\ last'.code = 404
                                              /\ notifications' = notifications)
                         /\ deleteNotification(u, UserTypeOf(u), i)
                            => /\ OnlyOwnDeleted(u)
                               /\ foreign => (/\ last'.code = 404
                                              /\ notifications' = notifications)]_vars

\* an Admin's markAsRead has just been answered 404 while the Notifications of
\* the Manager and of the Employee are stored, still unread
C25_Witness ==
    /\ last.op = "markAsRead" /\ last.code = 404
    /\ \E i, j \in 1..Len(notifications) :
          /\ notifications[i].userType = "Manager" /\ ~notifications[i].isRead
          /\ notifications[j].userType = "Employee" /\ notifications[j].isRead

\* the positions in the calls of the last createNotification that hold c
CallsAt(c) == {i \in 1..Len(calls) : calls[i] = c}

PushAttempts == {i \in 1..Len(calls) : calls[i].call = "sendPushNotification"}

\* C26: in createNotification every push attempt comes after Notification.create
\* has stored the record and after the lookup found a recipient with a token;
\* when Notification.create fails there is no push attempt and nothing is
\* stored; when the recipient has no token there is no push attempt and the
\* Notification is stored and returned.
C26_PushOnlyAfterPersisted ==
    [][last'.op = "createNotification"
          => LET stored == {i \in 1..Len(calls') :
                              calls'[i] = Call("Notification.create", "stored")}
                 failed == {i \in 1..Len(calls') :
                              calls'[i] = Call("Notification.create", "throws")}
                 token == {i \in 1..Len(calls') : calls'[i] = Call("findById", "token")}
                 noToken == {i \in 1..Len(calls') : calls'[i] = Call("findById", "no token")}
                 pushes == {i \in 1..Len(calls') : calls'[i].call = "sendPushNotification"}
                 returned == calls'[Len(calls')]
             IN /\ \A i \in pushes : /\ \E j \in stored : j < i
                                     /\ \E j \in token : j < i
                /\ failed # {} => /\ pushes = {}
                                  /\ notifications' = notifications
                                  /\ returned = Call("return", "null")
                /\ noToken # {} => /\ pushes = {}
                                   /\ Len(notifications') = Len(notifications) + 1
                                   /\ SubSeq(notifications', 1, Len(notifications))
                                         = notifications
                                   /\ returned = Call("return", "notification")]_vars

\* a createNotification has pushed, after it stored a second Notification
C26_Witness ==
    /\ last.op = "createNotification"
    /\ PushAttempts # {}
    /\ CallsAt(Call("Notification.create", "stored")) = {1}
    /\ Len(notifications) = 2

\* a createNotification for a recipient without token stored its Notification
C26_WitnessNoToken ==
    /\ last.op = "createNotification"
    /\ CallsAt(Call("findById", "no token")) # {}
    /\ PushAttempts = {}
    /\ Len(notifications) = 1

\* C28: when the decides on the Tasks of a Project overlap, one per Task, then
\* in every state in which a decide has just answered and no request is in
\* flight any more the Project's stored progress is round(100 * completed /
\* total) over the Tasks as they are now.
C28_OverlappingDecidesLeaveDerivedProgress ==
    (last.op = "decide" /\ last.code = 200 /\ Quiet)
       => \A p \in DOMAIN projects : projects[p].progress = DerivedProgress(p)

\* C30: while the creating Manager keeps deciding on a Task that is not
\* deleted, every ProgressUpdate appended to it is eventually approved or
\* rejected, and a Task awaiting approval eventually has pendingApproval = false.
C30_EveryUpdateEventuallyFinalized ==
    /\ \A t \in TaskIds, i \in 1..MaxUpdates :
          (t \in DOMAIN tasks /\ i <= Len(Updates(t)))
             ~> (t \in DOMAIN tasks /\ i <= Len(Updates(t)) /\ Finalized(Updates(t)[i]))
    /\ \A t \in TaskIds :
          (t \in DOMAIN tasks /\ tasks[t].pendingApproval)
             ~> (t \in DOMAIN tasks /\ ~tasks[t].pendingApproval)

====
